---- MODULE Spec2Model ----
(***************************************************************************)
(* A model of MiniHASS (src/app.py): the TP-Link switch client (XOR stream *)
(* cipher, framing, send_command), the WebOS TV session                    *)
(* (_execute_command and its helpers), the device state cache              *)
(* (update_device_state under state_lock, read by get_status) and the two  *)
(* dispatchers control_tplink and control_tv, serving one request at a     *)
(* time and several at once.                                               *)
(*                                                                         *)
(* Text and bytes are sequences of code points 0..255.  Python values are  *)
(* tagged records (PyNone, PyInt, PyBool, PyStr, PyDict, PyList).          *)
(***************************************************************************)
EXTENDS Integers, Sequences, FiniteSets, TLC

VARIABLES
    \* TPLinkDevice.encrypt / decrypt exercised as pure functions
    cpc, string, encrypted, decrypted,
    \* one call of TPLinkDevice.send_command
    spc, command, sock, devSends, sent, data, sexc, sret, sout,
    \* one call of WebOSTV._execute_command
    tvpc, tvcmd, hasAenter, sessions, store, storeAtStart, client, client_key,
    handshake, conn, connected, saveCalls, requested, powerReply, hout,
    result, tvexc, tvret, tvout, discLast,
    \* update_device_state called from several threads
    device_states, state_lock, upc, uarg, uts, now,
    \* get_status reading the cache while it is updated
    whole, snapshots,
    \* the time one call of send_command has spent in its socket calls, and
    \* the steps it has taken
    elapsed, steps,
    \* one request served by control_tplink or control_tv
    dpc, dkind, daction, dout, dispatches, before, updates, connects,
    commands, calls,
    \* requests served at once: the successful replies of the devices, in
    \* the order the handlers received them
    responses

cipherVars == <<cpc, string, encrypted, decrypted>>
switchVars == <<spc, command, sock, devSends, sent, data, sexc, sret, sout>>
tvVars == <<tvpc, tvcmd, hasAenter, sessions, store, storeAtStart, client,
            client_key, handshake, conn, connected, saveCalls, requested,
            powerReply, hout, result, tvexc, tvret, tvout, discLast>>
cacheVars == <<device_states, state_lock, upc, uarg, uts, now>>
readVars == <<whole, snapshots>>
timeVars == <<elapsed, steps>>
dispVars == <<dpc, dkind, daction, dout, dispatches, before, updates,
              connects, commands, calls>>
concVars == <<responses>>
vars == <<cipherVars, switchVars, tvVars, cacheVars, readVars, timeVars,
          dispVars, concVars>>
\* what the parts modelled on their own leave alone
extVars == <<readVars, timeVars, dispVars, concVars>>

(***************************************************************************)
(* Bounds of the model.                                                    *)
(***************************************************************************)
\* longest plaintext drawn exhaustively over ByteSample
MaxLen == 3
\* length of the one long plaintext (more than 255, so that the second
\* lowest byte of the length header is not zero)
LongLen == 258
\* number of threads calling update_device_state
NumThreads == 3
\* largest value of the clock time.time() reads
MaxTime == 3
\* number of television sessions run one after the other
MaxSessions == 2
\* number of bytes the cipher loops are unfolded over in one run
BlockLen == 16
\* number of requests served at the same time
MaxConcurrent == 2

(***************************************************************************)
(* Python values.                                                          *)
(***************************************************************************)
PyNone == [t |-> "None"]
PyInt(n) == [t |-> "int", n |-> n]
PyBool(b) == [t |-> "bool", b |-> b]
PyStr(s) == [t |-> "str", s |-> s]
PyList(l) == [t |-> "list", l |-> l]
\* a dict is a function from its keys (texts) to its values
PyDict(d) == [t |-> "dict", d |-> d]

\* the truth value of v in `if v` and `v and ...`
Truthy(v) ==
    CASE v.t = "None" -> FALSE
      [] v.t = "bool" -> v.b
      [] v.t = "int" -> v.n # 0
      [] v.t = "str" -> v.s # << >>
      [] v.t = "list" -> v.l # << >>
      [] v.t = "dict" -> DOMAIN v.d # {}

(***************************************************************************)
(* Bytes: 8-bit exclusive or, computed bit by bit.                         *)
(***************************************************************************)
RECURSIVE XorBits(_, _, _)
XorBits(a, b, n) ==
    IF n = 0 THEN 0
    ELSE (((a % 2) + (b % 2)) % 2) + 2 * XorBits(a \div 2, b \div 2, n - 1)

Xor(a, b) == XorBits(a, b, 8)

(***************************************************************************)
(* TPLinkDevice.encrypt and TPLinkDevice.decrypt.                          *)
(***************************************************************************)
\* the seed of the running key, `key = 171`
InitialKey == 171

\* struct.pack('>I', n): n as 4 bytes, most significant first
struct_pack_I_little(n) ==
    << n % 256, (n \div 256) % 256, (n \div 65536) % 256,
       (n \div 16777216) % 256 >>

struct_pack_I(n) ==
    << (n \div 16777216) % 256, (n \div 65536) % 256, (n \div 256) % 256,
       n % 256 >>

\* an encrypt loop that never stores the byte it emits in key
RECURSIVE encrypt_loop_seedkey(_, _, _, _)
encrypt_loop_seedkey(s, i, j, key) ==
    IF i > j THEN [result |-> << >>, key |-> key]
    ELSE LET a == Xor(key, s[i])
             rest == encrypt_loop_seedkey(s, i + 1, j, key)
         IN  [result |-> <<a>> \o rest.result, key |-> rest.key]

\* the loop of encrypt over string[i..j], entered with key:
\*   a = key ^ ord(char); key = a; result += bytes([a])
\* yields the bytes added to result and the key after the last of them
RECURSIVE encrypt_loop(_, _, _, _)
encrypt_loop(s, i, j, key) ==
    IF i > j THEN [result |-> << >>, key |-> key]
    ELSE LET a == Xor(key, s[i])
             rest == encrypt_loop(s, i + 1, j, a)
         IN  [result |-> <<a>> \o rest.result, key |-> rest.key]

\* the loop from string[i] to the end, run BlockLen characters at a time
\* (the key is carried from one run to the next)
RECURSIVE encrypt_from(_, _, _)
encrypt_from(s, i, key) ==
    IF i > Len(s) THEN << >>
    ELSE LET j == IF i + BlockLen - 1 < Len(s) THEN i + BlockLen - 1 ELSE Len(s)
             run == encrypt_loop(s, i, j, key)
         IN  run.result \o encrypt_from(s, j + 1, run.key)

encrypt(s) == struct_pack_I(Len(s)) \o encrypt_from(s, 1, InitialKey)

\* a decrypt loop whose key follows the output instead of the input
RECURSIVE decrypt_loop_keyout(_, _, _, _)
decrypt_loop_keyout(d, i, j, key) ==
    IF i > j THEN [result |-> << >>, key |-> key]
    ELSE LET a == Xor(key, d[i])
             rest == decrypt_loop_keyout(d, i + 1, j, a)
         IN  [result |-> <<a>> \o rest.result, key |-> rest.key]

\* the loop of decrypt over data[i..j], entered with key:
\*   a = key ^ byte; key = byte; result += chr(a)
RECURSIVE decrypt_loop(_, _, _, _)
decrypt_loop(d, i, j, key) ==
    IF i > j THEN [result |-> << >>, key |-> key]
    ELSE LET a == Xor(key, d[i])
             rest == decrypt_loop(d, i + 1, j, d[i])
         IN  [result |-> <<a>> \o rest.result, key |-> rest.key]

RECURSIVE decrypt_from(_, _, _)
decrypt_from(d, i, key) ==
    IF i > Len(d) THEN << >>
    ELSE LET j == IF i + BlockLen - 1 < Len(d) THEN i + BlockLen - 1 ELSE Len(d)
             run == decrypt_loop(d, i, j, key)
         IN  run.result \o decrypt_from(d, j + 1, run.key)

decrypt(d) == decrypt_from(d, 1, InitialKey)

\* data[4:]
SkipHeader(d) == SubSeq(d, 5, Len(d))

\* the bytes the plaintexts are drawn from
ByteSample == {0, 1, 97, 123, 171, 255}

RECURSIVE SeqsUpTo(_, _)
SeqsUpTo(S, n) ==
    IF n = 0 THEN { << >> }
    ELSE LET shorter == SeqsUpTo(S, n - 1)
         IN  shorter \cup { Append(s, b) : s \in shorter, b \in S }

LongText == [i \in 1..LongLen |-> IF i % 2 = 0 THEN 97 ELSE 171]


(***************************************************************************)
(* Text.  Chars lists the printable ASCII characters, code points 32..126, *)
(* in order (two of them by name); Text turns a sequence of characters     *)
(* into its code points.                                                   *)
(***************************************************************************)
Chars ==
    <<
       " ", "!", "\"", "#", "$", "%", "&", "'", "(", ")",
       "*", "+", ",", "-", ".", "/", "0", "1", "2", "3",
       "4", "5", "6", "7", "8", "9", ":", ";", "<", "=",
       ">", "?", "@", "A", "B", "C", "D", "E", "F", "G",
       "H", "I", "J", "K", "L", "M", "N", "O", "P", "Q",
       "R", "S", "T", "U", "V", "W", "X", "Y", "Z", "[",
       "backslash", "]", "^", "_", "backquote", "a", "b", "c", "d", "e",
       "f", "g", "h", "i", "j", "k", "l", "m", "n", "o",
       "p", "q", "r", "s", "t", "u", "v", "w", "x", "y",
       "z", "{", "|", "}", "~"
    >>

Ord(c) == 31 + (CHOOSE i \in DOMAIN Chars : Chars[i] = c)

Text(cs) == [i \in DOMAIN cs |-> Ord(cs[i])]

(***************************************************************************)
(* json.loads, for the JSON texts made of objects, arrays, strings without *)
(* escapes, non-negative integers and the literals null, true and false.   *)
(* A parse yields [ok, v, i]: whether it succeeded, the value, and the     *)
(* index of the first character after it.                                  *)
(***************************************************************************)
ParseFail == [ok |-> FALSE, v |-> PyNone, i |-> 0]
ParseOk(v, i) == [ok |-> TRUE, v |-> v, i |-> i]

At(s, i) == IF i >= 1 /\ i <= Len(s) THEN s[i] ELSE -1

IsDigit(c) == c >= 48 /\ c <= 57

RECURSIVE SkipWs(_, _)
SkipWs(s, i) ==
    IF At(s, i) \in {32, 9, 10, 13} THEN SkipWs(s, i + 1) ELSE i

\* the index of the closing quote of the string whose first character is at
\* i, or 0: unterminated, or a control character in it (strict mode)
RECURSIVE ScanString(_, _)
ScanString(s, i) ==
    IF i > Len(s) THEN 0
    ELSE IF s[i] = 34 THEN i
    ELSE IF s[i] < 32 \/ s[i] = 92 THEN 0
    ELSE ScanString(s, i + 1)

\* the index after the last digit of the run of digits starting at i
RECURSIVE ScanDigits(_, _)
ScanDigits(s, i) == IF IsDigit(At(s, i)) THEN ScanDigits(s, i + 1) ELSE i

RECURSIVE DigitsValue(_, _, _)
DigitsValue(s, i, j) ==
    IF j < i THEN 0 ELSE 10 * DigitsValue(s, i, j - 1) + (s[j] - 48)

HasLiteral(s, i, lit) ==
    /\ i + Len(lit) - 1 <= Len(s)
    /\ SubSeq(s, i, i + Len(lit) - 1) = lit

ParseString(s, i) ==
    LET j == ScanString(s, i + 1)
    IN  IF At(s, i) = 34 /\ j # 0
        THEN ParseOk(PyStr(SubSeq(s, i + 1, j - 1)), j + 1)
        ELSE ParseFail

\* an integer: 0, or a non-zero digit followed by digits
ParseNumber(s, i) ==
    LET j == IF At(s, i) = 48 THEN i + 1 ELSE ScanDigits(s, i)
    IN  ParseOk(PyInt(DigitsValue(s, i, j - 1)), j)

RECURSIVE ParseValue(_, _)
RECURSIVE ParseMembers(_, _, _)
RECURSIVE ParseElements(_, _, _)

\* the members of an object from the key at i on; d holds those read so far
\* (a repeated key keeps its last value)
ParseMembers(s, i, d) ==
    LET k == ParseString(s, i)
        c == SkipWs(s, k.i)
        v == ParseValue(s, SkipWs(s, c + 1))
        e == SkipWs(s, v.i)
        d2 == (k.v.s :> v.v) @@ d
    IN  IF ~k.ok \/ At(s, c) # 58 \/ ~v.ok THEN ParseFail
        ELSE IF At(s, e) = 125 THEN ParseOk(PyDict(d2), e + 1)
        ELSE IF At(s, e) = 44 THEN ParseMembers(s, SkipWs(s, e + 1), d2)
        ELSE ParseFail

\* the elements of an array from the value at i on; l holds those read so far
ParseElements(s, i, l) ==
    LET v == ParseValue(s, i)
        e == SkipWs(s, v.i)
        l2 == Append(l, v.v)
    IN  IF ~v.ok THEN ParseFail
        ELSE IF At(s, e) = 93 THEN ParseOk(PyList(l2), e + 1)
        ELSE IF At(s, e) = 44 THEN ParseElements(s, SkipWs(s, e + 1), l2)
        ELSE ParseFail

ParseValue(s, i) ==
    LET c == At(s, i)
    IN  IF c = 34 THEN ParseString(s, i)
        ELSE IF c = 123 THEN
            IF At(s, SkipWs(s, i + 1)) = 125
            THEN ParseOk(PyDict(<< >>), SkipWs(s, i + 1) + 1)
            ELSE ParseMembers(s, SkipWs(s, i + 1), << >>)
        ELSE IF c = 91 THEN
            IF At(s, SkipWs(s, i + 1)) = 93
            THEN ParseOk(PyList(<< >>), SkipWs(s, i + 1) + 1)
            ELSE ParseElements(s, SkipWs(s, i + 1), << >>)
        ELSE IF IsDigit(c) THEN ParseNumber(s, i)
        ELSE IF HasLiteral(s, i, Text(<<"n", "u", "l", "l">>))
            THEN ParseOk(PyNone, i + 4)
        ELSE IF HasLiteral(s, i, Text(<<"t", "r", "u", "e">>))
            THEN ParseOk(PyBool(TRUE), i + 4)
        ELSE IF HasLiteral(s, i, Text(<<"f", "a", "l", "s", "e">>))
            THEN ParseOk(PyBool(FALSE), i + 5)
        ELSE ParseFail

\* json.loads(s): [ok |-> FALSE] stands for JSONDecodeError
json_loads(s) ==
    LET r == ParseValue(s, SkipWs(s, 1))
    IN  IF r.ok /\ SkipWs(s, r.i) = Len(s) + 1
        THEN [ok |-> TRUE, v |-> r.v]
        ELSE [ok |-> FALSE, v |-> PyNone]

(***************************************************************************)
(* json.dumps, for the values the commands are made of: integers and       *)
(* dicts of at most one key (default separators ", " and ": ").            *)
(***************************************************************************)
RECURSIVE IntText(_)
IntText(n) ==
    IF n < 10 THEN <<48 + n>> ELSE IntText(n \div 10) \o <<48 + (n % 10)>>

Quoted(k) == <<34>> \o k \o <<34>>

RECURSIVE json_dumps(_)
json_dumps(v) ==
    IF v.t = "int" THEN IntText(v.n)
    ELSE IF DOMAIN v.d = {} THEN Text(<<"{", "}">>)
    ELSE LET k == CHOOSE x \in DOMAIN v.d : TRUE
         IN  <<123>> \o Quoted(k) \o <<58, 32>> \o json_dumps(v.d[k]) \o <<125>>

(***************************************************************************)
(* The commands of get_info, turn_on and turn_off, and the texts a switch  *)
(* may answer with.                                                        *)
(***************************************************************************)
K_system == Text(<<"s", "y", "s", "t", "e", "m">>)
K_get_sysinfo == Text(<<"g", "e", "t", "_", "s", "y", "s", "i", "n", "f", "o">>)
K_set_relay_state ==
    Text(<<"s", "e", "t", "_", "r", "e", "l", "a", "y", "_", "s", "t", "a",
           "t", "e">>)
K_state == Text(<<"s", "t", "a", "t", "e">>)
K_relay_state ==
    Text(<<"r", "e", "l", "a", "y", "_", "s", "t", "a", "t", "e">>)
K_err_code == Text(<<"e", "r", "r", "_", "c", "o", "d", "e">>)

\* {"system": {"get_sysinfo": {}}}
get_info_command ==
    PyDict(K_system :> PyDict(K_get_sysinfo :> PyDict(<< >>)))

\* {"system": {"set_relay_state": {"state": 1}}}
turn_on_command ==
    PyDict(K_system :> PyDict(K_set_relay_state :> PyDict(K_state :> PyInt(1))))

\* {"system": {"set_relay_state": {"state": 0}}}
turn_off_command ==
    PyDict(K_system :> PyDict(K_set_relay_state :> PyDict(K_state :> PyInt(0))))

Commands == {get_info_command, turn_on_command, turn_off_command}

\* the text {"k":v} of an object of one member, as a device writes it
Obj1(k, v) == <<123>> \o Quoted(k) \o <<58>> \o v \o <<125>>

\* JSON texts a device may answer with
ReplyTexts ==
    { Obj1(K_system, Obj1(K_get_sysinfo, Obj1(K_relay_state, <<49>>))),
      Obj1(K_system, Obj1(K_get_sysinfo, Obj1(K_relay_state, <<48>>))),
      Obj1(K_system, Obj1(K_set_relay_state, Obj1(K_err_code, <<48>>))),
      Obj1(K_system, Obj1(K_get_sysinfo, Text(<<"{", "}">>))),
      Obj1(K_err_code, <<49>>),
      Text(<<"1", "0">>),
      Text(<<"n", "u", "l", "l">>),
      Quoted(K_system),
      <<91>> \o Quoted(K_system) \o <<44, 32, 49>> \o <<93>> }

\* texts that are not JSON
NonJsonTexts ==
    { << >>, Text(<<"{", "x">>), Text(<<"0", "1">>), <<123, 34, 1, 34, 125>> }

(***************************************************************************)
(* The cipher as a pure function: encrypt a plaintext, strip the header,   *)
(* decrypt the rest.                                                       *)
(***************************************************************************)
Plaintexts ==
    SeqsUpTo(ByteSample, MaxLen) \cup { LongText }
        \cup { json_dumps(c) : c \in Commands }

CipherIdle ==
    /\ cpc = "off"
    /\ string = << >>
    /\ encrypted = << >>
    /\ decrypted = << >>

CipherInit ==
    /\ cpc = "start"
    /\ string \in Plaintexts
    /\ encrypted = << >>
    /\ decrypted = << >>

\* encrypted = TPLinkDevice.encrypt(string)
CallEncrypt ==
    /\ cpc = "start"
    /\ encrypted' = encrypt(string)
    /\ cpc' = "encrypted"
    /\ UNCHANGED <<string, decrypted, switchVars, tvVars, cacheVars>>

\* decrypted = TPLinkDevice.decrypt(encrypted[4:])
CallDecrypt ==
    /\ cpc = "encrypted"
    /\ decrypted' = decrypt(SkipHeader(encrypted))
    /\ cpc' = "decrypted"
    /\ UNCHANGED <<string, encrypted, switchVars, tvVars, cacheVars>>

CipherNext ==
    \/ CallEncrypt /\ UNCHANGED extVars
    \/ CallDecrypt /\ UNCHANGED extVars

(***************************************************************************)
(* TPLinkDevice.send_command: one call, step by step.  The switch and the  *)
(* network decide whether connect, send and recv succeed, what the switch  *)
(* sends and how much of it the one recv returns.                          *)
(***************************************************************************)
\* the buffer size of `sock.recv(2048)`
RecvSize == 2048

Min(a, b) == IF a < b THEN a ELSE b

\* what a switch may send back: a framed text, or bytes that are no frame
DeviceReplies ==
    { encrypt(J) : J \in ReplyTexts \cup NonJsonTexts }
        \cup { << >>, <<0, 0>> }

\* the exceptions of send_command's calls; all derive from Exception
SocketErrors ==
    {"OSError", "ConnectionRefusedError", "BrokenPipeError",
     "ConnectionResetError", "timeout"}

\* a handler that names the socket errors only
send_command_catches_oserror(e) == e \in SocketErrors

\* `except Exception as e:`
send_command_catches(e) == e \in SocketErrors \cup {"JSONDecodeError"}

SwitchIdle ==
    /\ spc = "off"
    /\ command = PyNone
    /\ sock = "none"
    /\ devSends = << >>
    /\ sent = << >>
    /\ data = << >>
    /\ sexc = "none"
    /\ sret = PyNone
    /\ sout = "none"

SwitchInit ==
    /\ spc = "idle"
    /\ command = PyNone
    /\ sock = "none"
    /\ devSends = << >>
    /\ sent = << >>
    /\ data = << >>
    /\ sexc = "none"
    /\ sret = PyNone
    /\ sout = "none"

SwOthers == <<cipherVars, tvVars, cacheVars>>

\* get_info, turn_on or turn_off calls send_command(ip, command)
SwCall(c) ==
    /\ spc = "idle"
    /\ command' = c
    /\ spc' = "socket"
    /\ UNCHANGED <<sock, devSends, sent, data, sexc, sret, sout, SwOthers>>

\* sock = socket.socket(...); sock.settimeout(timeout)
SwSocket ==
    /\ spc = "socket"
    /\ sock' = "open"
    /\ spc' = "connect"
    /\ UNCHANGED <<command, devSends, sent, data, sexc, sret, sout, SwOthers>>

SwSocketFail ==
    /\ spc = "socket"
    /\ sexc' = "OSError"
    /\ spc' = "except"
    /\ UNCHANGED <<command, sock, devSends, sent, data, sret, sout, SwOthers>>

\* sock.connect((ip, port)) succeeds; the switch will answer with reply
SwConnect(reply) ==
    /\ spc = "connect"
    /\ devSends' = reply
    /\ spc' = "send"
    /\ UNCHANGED <<command, sock, sent, data, sexc, sret, sout, SwOthers>>

SwConnectFail(e) ==
    /\ spc = "connect"
    /\ sexc' = e
    /\ spc' = "except"
    /\ UNCHANGED <<command, sock, devSends, sent, data, sret, sout, SwOthers>>

\* sock.send(TPLinkDevice.encrypt(json.dumps(command)))
SwSend ==
    /\ spc = "send"
    /\ sent' = encrypt(json_dumps(command))
    /\ spc' = "recv"
    /\ UNCHANGED <<command, sock, devSends, data, sexc, sret, sout, SwOthers>>

SwSendFail(e) ==
    /\ spc = "send"
    /\ sexc' = e
    /\ spc' = "except"
    /\ UNCHANGED <<command, sock, devSends, sent, data, sret, sout, SwOthers>>

\* the numbers of bytes one recv may return of what the switch sends: all
\* that fits the buffer, or less when the stream delivers the reply in
\* several segments; none only when the switch closes without sending
RecvSizes(reply) ==
    IF reply = << >> THEN {0} ELSE 1..Min(RecvSize, Len(reply))

\* data = sock.recv(2048)
SwRecv(k) ==
    /\ spc = "recv"
    /\ k \in RecvSizes(devSends)
    /\ data' = SubSeq(devSends, 1, k)
    /\ spc' = "close"
    /\ UNCHANGED <<command, sock, devSends, sent, sexc, sret, sout, SwOthers>>

SwRecvFail(e) ==
    /\ spc = "recv"
    /\ sexc' = e
    /\ spc' = "except"
    /\ UNCHANGED <<command, sock, devSends, sent, data, sret, sout, SwOthers>>

\* sock.close()
SwClose ==
    /\ spc = "close"
    /\ sock' = "closed"
    /\ spc' = "parse"
    /\ UNCHANGED <<command, devSends, sent, data, sexc, sret, sout, SwOthers>>

\* response = TPLinkDevice.decrypt(data[4:]); return json.loads(response)
SwParse ==
    /\ spc = "parse"
    /\ LET r == json_loads(decrypt(SkipHeader(data)))
       IN  IF r.ok
           THEN /\ sret' = r.v
                /\ sout' = "returned"
                /\ spc' = "done"
                /\ UNCHANGED sexc
           ELSE /\ sexc' = "JSONDecodeError"
                /\ spc' = "except"
                /\ UNCHANGED <<sret, sout>>
    /\ UNCHANGED <<command, sock, devSends, sent, data, SwOthers>>

\* a handler that tries the call again
SwExceptRetry ==
    /\ spc = "except"
    /\ sexc' = "none"
    /\ spc' = "socket"
    /\ UNCHANGED <<command, sock, devSends, sent, data, sret, sout, SwOthers>>

\* except Exception as e: logger.error(...); return None
SwExcept ==
    /\ spc = "except"
    /\ IF send_command_catches(sexc)
       THEN /\ sret' = PyNone
            /\ sout' = "returned"
       ELSE /\ sout' = "raised"
            /\ UNCHANGED sret
    /\ spc' = "done"
    /\ UNCHANGED <<command, sock, devSends, sent, data, sexc, SwOthers>>

SwitchNext ==
    \/ \E c \in Commands : SwCall(c) /\ UNCHANGED extVars
    \/ SwSocket /\ UNCHANGED extVars
    \/ SwSocketFail /\ UNCHANGED extVars
    \/ \E reply \in DeviceReplies : SwConnect(reply) /\ UNCHANGED extVars
    \/ \E e \in {"ConnectionRefusedError", "timeout"} : SwConnectFail(e)
            /\ UNCHANGED extVars
    \/ SwSend /\ UNCHANGED extVars
    \/ \E e \in {"BrokenPipeError", "timeout"} : SwSendFail(e)
            /\ UNCHANGED extVars
    \/ \E k \in RecvSizes(devSends) : SwRecv(k) /\ UNCHANGED extVars
    \/ \E e \in {"ConnectionResetError", "timeout"} : SwRecvFail(e)
            /\ UNCHANGED extVars
    \/ SwClose /\ UNCHANGED extVars
    \/ SwParse /\ UNCHANGED extVars
    \/ SwExcept /\ UNCHANGED extVars

(***************************************************************************)
(* WebOSTV: _execute_command, _handle_client_commands, _get_screen_state,  *)
(* load_client_key and save_client_key.  The pairing store holds the       *)
(* credential of the one television address.  The library client, the      *)
(* television and the store decide which calls raise.                      *)
(***************************************************************************)
\* pairing credentials the television may issue
Credentials == { PyStr(Text(<<"k", "1">>)), PyStr(Text(<<"k", "2">>)) }

TvCommands == {"turn_off", "turn_on", "get_power"}

S_Active == Text(<<"A", "c", "t", "i", "v", "e">>)
S_ScreenOn == Text(<<"S", "c", "r", "e", "e", "n", " ", "O", "n">>)
S_PowerOff == Text(<<"P", "o", "w", "e", "r", " ", "O", "f", "f">>)
S_ScreenOff == Text(<<"S", "c", "r", "e", "e", "n", " ", "O", "f", "f">>)

\* other texts a television may report as its power state
OtherPowerStates ==
    { Text(<<"U", "n", "k", "n", "o", "w", "n">>),
      Text(<<"S", "u", "s", "p", "e", "n", "d">>),
      Text(<<"a", "c", "t", "i", "v", "e">>),
      << >> }

\* what client.request(ep.GET_POWER_STATE) may return
PowerReplies ==
    { PyDict(K_state :> PyStr(x)) :
        x \in {S_Active, S_ScreenOn, S_PowerOff, S_ScreenOff}
                \cup OtherPowerStates }
        \cup { PyDict(<< >>), PyDict(K_err_code :> PyInt(1)),
               PyDict(K_state :> PyNone), PyDict(K_state :> PyInt(1)),
               PyNone, PyStr(S_Active), PyList(<<PyStr(S_Active)>>) }

\* result.get('state')
DictGet(d, k) == IF k \in DOMAIN d.d THEN d.d[k] ELSE PyNone

\* a mapping that counts "Screen Off" as on
get_screen_state_screen_off_on(reply) ==
    IF reply.t # "dict" THEN PyNone
    ELSE LET power_state == DictGet(reply, K_state)
         IN  IF power_state \in {PyStr(S_Active), PyStr(S_ScreenOn),
                                 PyStr(S_ScreenOff)}
             THEN PyBool(TRUE)
             ELSE IF power_state \in {PyStr(S_PowerOff)}
             THEN PyBool(FALSE)
             ELSE PyNone

\* _get_screen_state once the request has returned reply; a reply without
\* .get raises AttributeError, which the function catches itself
get_screen_state(reply) ==
    IF reply.t # "dict" THEN PyNone
    ELSE LET power_state == DictGet(reply, K_state)
         IN  IF power_state \in {PyStr(S_Active), PyStr(S_ScreenOn)}
             THEN PyBool(TRUE)
             ELSE IF power_state \in {PyStr(S_PowerOff), PyStr(S_ScreenOff)}
             THEN PyBool(FALSE)
             ELSE PyNone

\* a test that saves whatever credential the client holds
needs_save_always(key, original_key) == Truthy(key)

\* `if client.client_key and client.client_key != original_key:`
needs_save(key, original_key) == Truthy(key) /\ key # original_key

\* the exceptions of the session's calls; all derive from Exception
TvErrors ==
    {"ConsulException", "ConnectionError", "TimeoutError", "WebOsTvPairError",
     "WebOsTvCommandError"}

\* `except Exception as e:` of _execute_command
execute_command_catches(e) == e \in TvErrors

TvSessionStart ==
    /\ client = "None"
    /\ client_key = PyNone
    /\ handshake = PyNone
    /\ conn = "none"
    /\ connected = FALSE
    /\ saveCalls = << >>
    /\ requested = "none"
    /\ powerReply = PyNone
    /\ hout = "none"
    /\ result = PyNone
    /\ tvexc = "none"
    /\ tvret = PyNone
    /\ tvout = "none"
    /\ discLast = "none"

TvIdle ==
    /\ tvpc = "off"
    /\ tvcmd = "none"
    /\ hasAenter = FALSE
    /\ sessions = 0
    /\ store = PyNone
    /\ storeAtStart = PyNone
    /\ TvSessionStart

TvInit ==
    /\ tvpc = "idle"
    /\ tvcmd = "none"
    /\ hasAenter \in BOOLEAN
    /\ sessions = 0
    /\ store \in Credentials \cup {PyNone}
    /\ storeAtStart = store
    /\ TvSessionStart

TvOthers == <<cipherVars, switchVars, cacheVars>>

\* turn_screen_off, turn_screen_on or get_power_state calls
\* _execute_command(cmd): client = None
TvCall(cmd) ==
    /\ tvpc \in {"idle", "done"}
    /\ sessions < MaxSessions
    /\ sessions' = sessions + 1
    /\ tvcmd' = cmd
    /\ storeAtStart' = store
    /\ client' = "None"
    /\ client_key' = PyNone
    /\ handshake' = PyNone
    /\ conn' = "none"
    /\ connected' = FALSE
    /\ saveCalls' = << >>
    /\ requested' = "none"
    /\ powerReply' = PyNone
    /\ hout' = "none"
    /\ result' = PyNone
    /\ tvexc' = "none"
    /\ tvret' = PyNone
    /\ tvout' = "none"
    /\ discLast' = "none"
    /\ tvpc' = "load"
    /\ UNCHANGED <<hasAenter, store, TvOthers>>

\* client_key = self.load_client_key(); client = WebOsClient(ip, client_key)
TvLoad ==
    /\ tvpc = "load"
    /\ client_key' = store
    /\ client' = "WebOsClient"
    /\ handshake' = store
    /\ tvpc' = IF hasAenter THEN "aenter" ELSE "connect"
    /\ UNCHANGED <<tvcmd, hasAenter, sessions, store, storeAtStart, conn,
                   connected, saveCalls, requested, powerReply, hout, result,
                   tvexc, tvret, tvout, discLast, TvOthers>>

\* load_client_key raises (the store is unreachable)
TvLoadFail ==
    /\ tvpc = "load"
    /\ tvexc' = "ConsulException"
    /\ tvpc' = "except"
    /\ UNCHANGED <<tvcmd, hasAenter, sessions, store, storeAtStart, client,
                   client_key, handshake, conn, connected, saveCalls,
                   requested, powerReply, hout, result, tvret, tvout,
                   discLast, TvOthers>>

\* the credentials a successful handshake may leave in client.client_key:
\* the one the client was built with, or one the television issues
HandshakeKeys == Credentials \cup {client_key}

\* await client.connect(); client.connected = True
TvConnect(k) ==
    /\ tvpc = "connect"
    /\ k \in HandshakeKeys
    /\ conn' = "open"
    /\ handshake' = k
    /\ connected' = TRUE
    /\ tvpc' = "handle"
    /\ UNCHANGED <<tvcmd, hasAenter, sessions, store, storeAtStart, client,
                   client_key, saveCalls, requested, powerReply, hout, result,
                   tvexc, tvret, tvout, discLast, TvOthers>>

\* a connect failure that forgets the stored credential
TvConnectFailForget(e) ==
    /\ tvpc = "connect"
    /\ tvexc' = e
    /\ store' = PyNone
    /\ tvpc' = "except"
    /\ UNCHANGED <<tvcmd, hasAenter, sessions, storeAtStart, client,
                   client_key, handshake, conn, connected, saveCalls,
                   requested, powerReply, hout, result, tvret, tvout,
                   discLast, TvOthers>>

\* await client.connect() raises
TvConnectFail(e) ==
    /\ tvpc = "connect"
    /\ tvexc' = e
    /\ tvpc' = "except"
    /\ UNCHANGED <<tvcmd, hasAenter, sessions, store, storeAtStart, client,
                   client_key, handshake, conn, connected, saveCalls,
                   requested, powerReply, hout, result, tvret, tvout,
                   discLast, TvOthers>>

\* `async with client as client:` enters: __aenter__ connects
TvAenter(k) ==
    /\ tvpc = "aenter"
    /\ k \in HandshakeKeys
    /\ conn' = "open"
    /\ handshake' = k
    /\ tvpc' = "handle"
    /\ UNCHANGED <<tvcmd, hasAenter, sessions, store, storeAtStart, client,
                   client_key, connected, saveCalls, requested, powerReply,
                   hout, result, tvexc, tvret, tvout, discLast, TvOthers>>

\* __aenter__ raises
TvAenterFail(e) ==
    /\ tvpc = "aenter"
    /\ tvexc' = e
    /\ tvpc' = "except"
    /\ UNCHANGED <<tvcmd, hasAenter, sessions, store, storeAtStart, client,
                   client_key, handshake, conn, connected, saveCalls,
                   requested, powerReply, hout, result, tvret, tvout,
                   discLast, TvOthers>>

\* where _execute_command goes on when _handle_client_commands returns, and
\* when it raises
AfterHandle == IF hasAenter THEN "aexit" ELSE "disconnect"
HandleRaised == IF hasAenter THEN "aexit" ELSE "except"

\* _handle_client_commands: the credential is the one loaded, nothing saved
TvNoSave ==
    /\ tvpc = "handle"
    /\ ~needs_save(handshake, client_key)
    /\ tvpc' = "command"
    /\ UNCHANGED <<tvcmd, hasAenter, sessions, store, storeAtStart, client,
                   client_key, handshake, conn, connected, saveCalls,
                   requested, powerReply, hout, result, tvexc, tvret, tvout,
                   discLast, TvOthers>>

\* self.save_client_key(client.client_key)
TvSave ==
    /\ tvpc = "handle"
    /\ needs_save(handshake, client_key)
    /\ saveCalls' = Append(saveCalls, handshake)
    /\ store' = handshake
    /\ tvpc' = "command"
    /\ UNCHANGED <<tvcmd, hasAenter, sessions, storeAtStart, client,
                   client_key, handshake, conn, connected, requested,
                   powerReply, hout, result, tvexc, tvret, tvout, discLast,
                   TvOthers>>

\* a failed save that leaves the key of the store empty
TvSaveFailBlank ==
    /\ tvpc = "handle"
    /\ needs_save(handshake, client_key)
    /\ saveCalls' = Append(saveCalls, handshake)
    /\ store' = PyNone
    /\ tvexc' = "ConsulException"
    /\ hout' = "raised"
    /\ tvpc' = HandleRaised
    /\ UNCHANGED <<tvcmd, hasAenter, sessions, storeAtStart, client,
                   client_key, handshake, conn, connected, requested,
                   powerReply, result, tvret, tvout, discLast, TvOthers>>

\* save_client_key raises (the store is unreachable)
TvSaveFail ==
    /\ tvpc = "handle"
    /\ needs_save(handshake, client_key)
    /\ saveCalls' = Append(saveCalls, handshake)
    /\ tvexc' = "ConsulException"
    /\ hout' = "raised"
    /\ tvpc' = HandleRaised
    /\ UNCHANGED <<tvcmd, hasAenter, sessions, store, storeAtStart, client,
                   client_key, handshake, conn, connected, requested,
                   powerReply, result, tvret, tvout, discLast, TvOthers>>

\* await client.command("request", ep.TURN_OFF_SCREEN / ep.TURN_ON_SCREEN);
\* return True
TvScreenCommand ==
    /\ tvpc = "command"
    /\ tvcmd \in {"turn_off", "turn_on"}
    /\ requested' = "ok"
    /\ result' = PyBool(TRUE)
    /\ hout' = "returned"
    /\ tvpc' = AfterHandle
    /\ UNCHANGED <<tvcmd, hasAenter, sessions, store, storeAtStart, client,
                   client_key, handshake, conn, connected, saveCalls,
                   powerReply, tvexc, tvret, tvout, discLast, TvOthers>>

\* client.command raises
TvScreenCommandFail(e) ==
    /\ tvpc = "command"
    /\ tvcmd \in {"turn_off", "turn_on"}
    /\ requested' = "raised"
    /\ tvexc' = e
    /\ hout' = "raised"
    /\ tvpc' = HandleRaised
    /\ UNCHANGED <<tvcmd, hasAenter, sessions, store, storeAtStart, client,
                   client_key, handshake, conn, connected, saveCalls,
                   powerReply, result, tvret, tvout, discLast, TvOthers>>

\* return await self._get_screen_state(client), the request returning reply
TvGetPower(reply) ==
    /\ tvpc = "command"
    /\ tvcmd = "get_power"
    /\ requested' = "ok"
    /\ powerReply' = reply
    /\ result' = get_screen_state(reply)
    /\ hout' = "returned"
    /\ tvpc' = AfterHandle
    /\ UNCHANGED <<tvcmd, hasAenter, sessions, store, storeAtStart, client,
                   client_key, handshake, conn, connected, saveCalls, tvexc,
                   tvret, tvout, discLast, TvOthers>>

\* _get_screen_state: client.request raises; except Exception: return None
TvGetPowerFail ==
    /\ tvpc = "command"
    /\ tvcmd = "get_power"
    /\ requested' = "raised"
    /\ result' = PyNone
    /\ hout' = "returned"
    /\ tvpc' = AfterHandle
    /\ UNCHANGED <<tvcmd, hasAenter, sessions, store, storeAtStart, client,
                   client_key, handshake, conn, connected, saveCalls,
                   powerReply, tvexc, tvret, tvout, discLast, TvOthers>>

\* await client.disconnect(); client.connected = False; return result
TvDisconnect ==
    /\ tvpc = "disconnect"
    /\ conn' = "closed"
    /\ connected' = FALSE
    /\ discLast' = "ok"
    /\ tvret' = result
    /\ tvout' = "returned"
    /\ tvpc' = "finally"
    /\ UNCHANGED <<tvcmd, hasAenter, sessions, store, storeAtStart, client,
                   client_key, handshake, saveCalls, requested, powerReply,
                   hout, result, tvexc, TvOthers>>

\* await client.disconnect() raises, leaving the connection open or closed
TvDisconnectFail(e, c) ==
    /\ tvpc = "disconnect"
    /\ conn' = c
    /\ discLast' = "raised"
    /\ tvexc' = e
    /\ tvpc' = "except"
    /\ UNCHANGED <<tvcmd, hasAenter, sessions, store, storeAtStart, client,
                   client_key, handshake, connected, saveCalls, requested,
                   powerReply, hout, result, tvret, tvout, TvOthers>>

\* the `async with` block is left, by the return or by an exception:
\* __aexit__ disconnects; a return stays pending, an exception goes on
TvAexit ==
    /\ tvpc = "aexit"
    /\ conn' = "closed"
    /\ discLast' = "ok"
    /\ IF hout = "returned"
       THEN /\ tvret' = result
            /\ tvout' = "returned"
            /\ tvpc' = "finally"
       ELSE /\ tvpc' = "except"
            /\ UNCHANGED <<tvret, tvout>>
    /\ UNCHANGED <<tvcmd, hasAenter, sessions, store, storeAtStart, client,
                   client_key, handshake, connected, saveCalls, requested,
                   powerReply, hout, result, tvexc, TvOthers>>

\* __aexit__ raises
TvAexitFail(e, c) ==
    /\ tvpc = "aexit"
    /\ conn' = c
    /\ discLast' = "raised"
    /\ tvexc' = e
    /\ tvpc' = "except"
    /\ UNCHANGED <<tvcmd, hasAenter, sessions, store, storeAtStart, client,
                   client_key, handshake, connected, saveCalls, requested,
                   powerReply, hout, result, tvret, tvout, TvOthers>>

\* except Exception as e: logger.error(...); return None
TvExcept ==
    /\ tvpc = "except"
    /\ IF execute_command_catches(tvexc)
       THEN /\ tvret' = PyNone
            /\ tvout' = "returned"
       ELSE /\ tvout' = "raised"
            /\ UNCHANGED tvret
    /\ tvpc' = "finally"
    /\ UNCHANGED <<tvcmd, hasAenter, sessions, store, storeAtStart, client,
                   client_key, handshake, conn, connected, saveCalls,
                   requested, powerReply, hout, result, tvexc, discLast,
                   TvOthers>>

\* a finally clause that never disconnects
finally_disconnects_never == FALSE

\* `if client and not hasattr(client, '__aenter__') and
\*     getattr(client, 'connected', False):`
finally_disconnects == client # "None" /\ ~hasAenter /\ connected

\* finally: nothing to clean up; the pending return or exception takes effect
TvFinally ==
    /\ tvpc = "finally"
    /\ ~finally_disconnects
    /\ tvpc' = "done"
    /\ UNCHANGED <<tvcmd, hasAenter, sessions, store, storeAtStart, client,
                   client_key, handshake, conn, connected, saveCalls,
                   requested, powerReply, hout, result, tvexc, tvret, tvout,
                   discLast, TvOthers>>

\* finally: await client.disconnect()
TvFinallyDisconnect ==
    /\ tvpc = "finally"
    /\ finally_disconnects
    /\ conn' = "closed"
    /\ discLast' = "ok"
    /\ tvpc' = "done"
    /\ UNCHANGED <<tvcmd, hasAenter, sessions, store, storeAtStart, client,
                   client_key, handshake, connected, saveCalls, requested,
                   powerReply, hout, result, tvexc, tvret, tvout, TvOthers>>

\* finally: await client.disconnect() raises; the exception replaces the
\* pending return and leaves _execute_command
TvFinallyDisconnectFail(e, c) ==
    /\ tvpc = "finally"
    /\ finally_disconnects
    /\ conn' = c
    /\ discLast' = "raised"
    /\ tvexc' = e
    /\ tvret' = PyNone
    /\ tvout' = "raised"
    /\ tvpc' = "done"
    /\ UNCHANGED <<tvcmd, hasAenter, sessions, store, storeAtStart, client,
                   client_key, handshake, connected, saveCalls, requested,
                   powerReply, hout, result, TvOthers>>

ConnectErrors == {"ConnectionError", "TimeoutError", "WebOsTvPairError"}
CommandErrors == {"WebOsTvCommandError", "TimeoutError"}
DisconnectErrors == {"ConnectionError"}

TvNext ==
    \/ \E cmd \in TvCommands : TvCall(cmd) /\ UNCHANGED extVars
    \/ TvLoad /\ UNCHANGED extVars
    \/ TvLoadFail /\ UNCHANGED extVars
    \/ \E k \in HandshakeKeys : TvConnect(k) /\ UNCHANGED extVars
    \/ \E e \in ConnectErrors : TvConnectFail(e) /\ UNCHANGED extVars
    \/ \E k \in HandshakeKeys : TvAenter(k) /\ UNCHANGED extVars
    \/ \E e \in ConnectErrors : TvAenterFail(e) /\ UNCHANGED extVars
    \/ TvNoSave /\ UNCHANGED extVars
    \/ TvSave /\ UNCHANGED extVars
    \/ TvSaveFail /\ UNCHANGED extVars
    \/ TvScreenCommand /\ UNCHANGED extVars
    \/ \E e \in CommandErrors : TvScreenCommandFail(e) /\ UNCHANGED extVars
    \/ \E reply \in PowerReplies : TvGetPower(reply) /\ UNCHANGED extVars
    \/ TvGetPowerFail /\ UNCHANGED extVars
    \/ TvDisconnect /\ UNCHANGED extVars
    \/ \E e \in DisconnectErrors, c \in {"open", "closed"} :
            TvDisconnectFail(e, c) /\ UNCHANGED extVars
    \/ TvAexit /\ UNCHANGED extVars
    \/ \E e \in DisconnectErrors, c \in {"open", "closed"} : TvAexitFail(e, c)
            /\ UNCHANGED extVars
    \/ TvExcept /\ UNCHANGED extVars
    \/ TvFinally /\ UNCHANGED extVars
    \/ TvFinallyDisconnect /\ UNCHANGED extVars
    \/ \E e \in DisconnectErrors, c \in {"open", "closed"} :
            TvFinallyDisconnectFail(e, c) /\ UNCHANGED extVars

(***************************************************************************)
(* The device state cache: device_states, state_lock and                   *)
(* update_device_state, called from several threads.  The clock that       *)
(* time.time() reads never runs backwards.                                 *)
(***************************************************************************)
Threads == 1..NumThreads

Devices == {"tplink", "tv"}

\* the lock is free
NoThread == 0

CacheStart ==
    /\ device_states =
          [tplink |-> PyBool(FALSE), tv |-> PyBool(FALSE), last_update |-> 0]
    /\ state_lock = NoThread
    /\ uarg = [t \in Threads |-> [device |-> "tplink", state |-> PyBool(FALSE)]]
    /\ uts = [t \in Threads |-> 0]

CacheIdle ==
    /\ CacheStart
    /\ upc = [t \in Threads |-> "off"]
    /\ now = 0

CacheInit ==
    /\ CacheStart
    /\ upc = [t \in Threads |-> "idle"]
    /\ now = 1

CacheOthers == <<cipherVars, switchVars, tvVars>>

\* thread t calls update_device_state(device, state)
UpdCall(t, device, state) ==
    /\ upc[t] = "idle"
    /\ uarg' = [uarg EXCEPT ![t] = [device |-> device, state |-> state]]
    /\ upc' = [upc EXCEPT ![t] = "acquire"]
    /\ UNCHANGED <<device_states, state_lock, uts, now, CacheOthers>>

\* an update that does not wait for the lock
lock_available_always == TRUE

\* state_lock can be acquired
lock_available == state_lock = NoThread

\* with state_lock: (enter)
UpdAcquire(t) ==
    /\ upc[t] = "acquire"
    /\ lock_available
    /\ state_lock' = t
    /\ upc' = [upc EXCEPT ![t] = "state"]
    /\ UNCHANGED <<device_states, uarg, uts, now, CacheOthers>>

\* an update that writes the state of every device
UpdStateAll(t) ==
    /\ upc[t] = "state"
    /\ device_states' =
          [device_states EXCEPT !.tplink = uarg[t].state,
                                !.tv = uarg[t].state]
    /\ upc' = [upc EXCEPT ![t] = "time"]
    /\ UNCHANGED <<state_lock, uarg, uts, now, CacheOthers>>

\* device_states[device] = state
UpdState(t) ==
    /\ upc[t] = "state"
    /\ device_states' =
          [device_states EXCEPT ![uarg[t].device] = uarg[t].state]
    /\ upc' = [upc EXCEPT ![t] = "time"]
    /\ UNCHANGED <<state_lock, uarg, uts, now, CacheOthers>>

\* device_states['last_update'] = time.time()
UpdTime(t) ==
    /\ upc[t] = "time"
    /\ device_states' = [device_states EXCEPT !.last_update = now]
    /\ uts' = [uts EXCEPT ![t] = now]
    /\ upc' = [upc EXCEPT ![t] = "release"]
    /\ UNCHANGED <<state_lock, uarg, now, CacheOthers>>

\* with state_lock: (exit)
UpdRelease(t) ==
    /\ upc[t] = "release"
    /\ state_lock' = NoThread
    /\ upc' = [upc EXCEPT ![t] = "done"]
    /\ UNCHANGED <<device_states, uarg, uts, now, CacheOthers>>

\* time passes
Tick ==
    /\ now < MaxTime
    /\ now' = now + 1
    /\ UNCHANGED <<device_states, state_lock, upc, uarg, uts, CacheOthers>>

CacheNext ==
    \/ \E t \in Threads, device \in Devices, state \in {PyBool(TRUE), PyBool(FALSE)} :
            UpdCall(t, device, state) /\ UNCHANGED extVars
    \/ \E t \in Threads : UpdAcquire(t) /\ UNCHANGED extVars
    \/ \E t \in Threads : UpdState(t) /\ UNCHANGED extVars
    \/ \E t \in Threads : UpdTime(t) /\ UNCHANGED extVars
    \/ \E t \in Threads : UpdRelease(t) /\ UNCHANGED extVars
    \/ Tick /\ UNCHANGED extVars

(***************************************************************************)
(* The running key of the cipher loops, read off after n bytes.            *)
(***************************************************************************)
\* the key of encrypt once its loop has processed string[i..n], entered with
\* key (run BlockLen characters at a time)
RECURSIVE encrypt_key_from(_, _, _, _)
encrypt_key_from(s, i, n, key) ==
    IF i > n THEN key
    ELSE LET j == Min(i + BlockLen - 1, n)
         IN  encrypt_key_from(s, j + 1, n, encrypt_loop(s, i, j, key).key)

\* the key of encrypt(s) after the first n characters: `key = 171` at entry
encrypt_key(s, n) == encrypt_key_from(s, 1, n, InitialKey)

RECURSIVE decrypt_key_from(_, _, _, _)
decrypt_key_from(d, i, n, key) ==
    IF i > n THEN key
    ELSE LET j == Min(i + BlockLen - 1, n)
         IN  decrypt_key_from(d, j + 1, n, decrypt_loop(d, i, j, key).key)

\* the key of decrypt(d) after the first n bytes
decrypt_key(d, n) == decrypt_key_from(d, 1, n, InitialKey)

(***************************************************************************)
(* get_status: the cache read by one request while others update it.  The  *)
(* read takes no lock.  `whole` is the cache as the last update that has   *)
(* written both its state and its timestamp left it.                       *)
(***************************************************************************)
ReadIdle ==
    /\ whole =
          [tplink |-> PyBool(FALSE), tv |-> PyBool(FALSE), last_update |-> 0]
    /\ snapshots = << >>

\* return jsonify(device_states)
GetStatus ==
    /\ snapshots = << >>
    /\ \E t \in Threads : upc[t] # "off"
    /\ snapshots' = <<[seen |-> device_states, whole |-> whole]>>
    /\ UNCHANGED <<whole, cacheVars, CacheOthers, timeVars, dispVars,
                   concVars>>

\* an update has written its timestamp after its state: the cache is whole
UpdTimeWhole(t) ==
    /\ UpdTime(t)
    /\ whole' = device_states'
    /\ UNCHANGED <<snapshots, timeVars, dispVars, concVars>>

CacheReadNext ==
    \/ \E t \in Threads, device \in Devices,
          state \in {PyBool(TRUE), PyBool(FALSE)} :
            UpdCall(t, device, state) /\ UNCHANGED extVars
    \/ \E t \in Threads : UpdAcquire(t) /\ UNCHANGED extVars
    \/ \E t \in Threads : UpdState(t) /\ UNCHANGED extVars
    \/ \E t \in Threads : UpdTimeWhole(t)
    \/ \E t \in Threads : UpdRelease(t) /\ UNCHANGED extVars
    \/ Tick /\ UNCHANGED extVars
    \/ GetStatus

(***************************************************************************)
(* send_command against the clock.  sock.settimeout(timeout) bounds each   *)
(* blocking call of the socket on its own: connect, send and recv each     *)
(* return, or raise socket.timeout once `timeout` seconds have passed.     *)
(***************************************************************************)
\* `timeout=5`, in seconds
Timeout == 5

\* a socket that was given no timeout: a call may last any time
call_durations_unset == 0..(4 * Timeout)

\* the whole seconds one blocking call may last before it returns or fails
\* for another reason than the timeout
call_durations == 0..Timeout

TimeIdle == elapsed = 0 /\ steps = 0

\* no request is served at the same time as another
ConcIdle == responses = << >>

TimedOthers == <<readVars, dispVars, concVars>>

\* a step of send_command that took d seconds
Spent(d) ==
    /\ elapsed' = elapsed + d
    /\ steps' = steps + 1
    /\ UNCHANGED TimedOthers

\* a socket call returns, or fails at once or late, after d seconds
TimedCall(d) ==
    \/ \E reply \in DeviceReplies : SwConnect(reply) /\ Spent(d)
    \/ SwConnectFail("ConnectionRefusedError") /\ Spent(d)
    \/ SwSend /\ Spent(d)
    \/ SwSendFail("BrokenPipeError") /\ Spent(d)
    \/ \E k \in RecvSizes(devSends) : SwRecv(k) /\ Spent(d)
    \/ SwRecvFail("ConnectionResetError") /\ Spent(d)

\* a socket call raises socket.timeout: the timeout has passed
TimedOut ==
    \/ SwConnectFail("timeout") /\ Spent(Timeout)
    \/ SwSendFail("timeout") /\ Spent(Timeout)
    \/ SwRecvFail("timeout") /\ Spent(Timeout)

\* the steps of send_command that do not wait for the switch
Untimed ==
    \/ \E c \in Commands : SwCall(c) /\ Spent(0)
    \/ SwSocket /\ Spent(0)
    \/ SwSocketFail /\ Spent(0)
    \/ SwClose /\ Spent(0)
    \/ SwParse /\ Spent(0)
    \/ SwExcept /\ Spent(0)

TimedNext ==
    \/ \E d \in call_durations : TimedCall(d)
    \/ TimedOut
    \/ Untimed

(***************************************************************************)
(* The dispatchers control_tplink and control_tv: one request at a time,   *)
(* from the route to the response.  The request calls the client of its    *)
(* device (the actions of send_command and _execute_command above) and,    *)
(* where the code says so, update_device_state, as thread Request.         *)
(***************************************************************************)
\* number of requests served one after the other
MaxDispatches == 2

\* the thread that serves the request
Request == 1

\* the actions a request may name: those of the routes and one other
TplinkActions == {"on", "off", "status"}
TvActions == {"screen_on", "screen_off", "status"}
OtherActions == {"frobnicate"}

\* jsonify({'status': 'success', 'state': state})
Success(state) ==
    [code |-> 200, status |-> "success", error |-> "", state |-> state]

\* jsonify({'error': message}), code
Failure(code, message) ==
    [code |-> code, status |-> "error", error |-> message, state |-> PyNone]

NoOutcome == [code |-> 0, status |-> "none", error |-> "", state |-> PyNone]

\* what a handler does once the client has returned: it calls
\* update_device_state with the states in `update` (none or one), then
\* returns out
Update(state) == [update |-> <<state>>, out |-> Success(state)]
Return(out) == [update |-> << >>, out |-> out]

\* `key in v` for a text key: among the keys of a dict, the items of a list
\* or the substrings of a str; any other value raises TypeError
Contains(key, v) ==
    CASE v.t = "dict" -> IF key \in DOMAIN v.d THEN "True" ELSE "False"
      [] v.t = "list" ->
            IF \E i \in 1..Len(v.l) : v.l[i] = PyStr(key)
            THEN "True" ELSE "False"
      [] v.t = "str" ->
            IF \E i \in 1..(Len(v.s) - Len(key) + 1) :
                    SubSeq(v.s, i, i + Len(key) - 1) = key
            THEN "True" ELSE "False"
      [] OTHER -> "TypeError"

\* `v[key]` for a text key: the value, or KeyError from a dict without the
\* key, or TypeError from any other value
Subscript(v, key) ==
    IF v.t = "dict"
    THEN IF key \in DOMAIN v.d
         THEN [ok |-> TRUE, v |-> v.d[key], exc |-> "none"]
         ELSE [ok |-> FALSE, v |-> PyNone, exc |-> "KeyError"]
    ELSE [ok |-> FALSE, v |-> PyNone, exc |-> "TypeError"]

\* `v == 1` (True equals 1)
EqualsOne(v) == v = PyInt(1) \/ v = PyBool(TRUE)

\* a router that takes any other action for status
tplink_command_default(action) ==
    CASE action = "on" -> turn_on_command
      [] action = "off" -> turn_off_command
      [] OTHER -> get_info_command

\* the command control_tplink has the client send for action: that of
\* turn_on, turn_off or get_info, or none
tplink_command(action) ==
    CASE action = "on" -> turn_on_command
      [] action = "off" -> turn_off_command
      [] action = "status" -> get_info_command
      [] OTHER -> PyNone

\* a handler that records the commanded state before it looks at the reply
control_tplink_try_optimistic(action, res) ==
    LET acked == IF Truthy(res) THEN Contains(K_system, res) ELSE "False"
    IN  IF action \notin {"on", "off", "status"}
        THEN Return(Failure(500, "Command failed"))
        ELSE IF action \in {"on", "off"}
        THEN IF acked = "True"
             THEN Update(PyBool(action = "on"))
             ELSE [update |-> <<PyBool(action = "on")>>,
                   out |-> Failure(500, IF acked = "TypeError"
                                        THEN "TypeError"
                                        ELSE "Command failed")]
        ELSE IF acked = "TypeError"
        THEN Return(Failure(500, "TypeError"))
        ELSE IF acked = "False"
        THEN Return(Failure(500, "Command failed"))
        ELSE LET system == Subscript(res, K_system)
                 sysinfo == IF system.ok
                            THEN Subscript(system.v, K_get_sysinfo)
                            ELSE system
                 relay == IF sysinfo.ok
                          THEN Subscript(sysinfo.v, K_relay_state)
                          ELSE sysinfo
             IN  IF relay.ok
                 THEN Update(PyBool(EqualsOne(relay.v)))
                 ELSE Return(Failure(500, relay.exc))

\* the try block of control_tplink once the client has returned res, and
\* the handler of what it raises:
\*   if result and 'system' in result: update_device_state(...); return ...
\*   return jsonify({'error': 'Command failed'}), 500
\*   except Exception as e: return jsonify({'error': str(e)}), 500
control_tplink_try(action, res) ==
    LET acked == IF Truthy(res) THEN Contains(K_system, res) ELSE "False"
    IN  IF action \notin {"on", "off", "status"}
        THEN Return(Failure(500, "Command failed"))
        ELSE IF acked = "TypeError"
        THEN Return(Failure(500, "TypeError"))
        ELSE IF acked = "False"
        THEN Return(Failure(500, "Command failed"))
        ELSE IF action = "on"
        THEN Update(PyBool(TRUE))
        ELSE IF action = "off"
        THEN Update(PyBool(FALSE))
        ELSE LET system == Subscript(res, K_system)
                 sysinfo == IF system.ok
                            THEN Subscript(system.v, K_get_sysinfo)
                            ELSE system
                 relay == IF sysinfo.ok
                          THEN Subscript(sysinfo.v, K_relay_state)
                          ELSE sysinfo
             IN  IF relay.ok
                 THEN Update(PyBool(EqualsOne(relay.v)))
                 ELSE Return(Failure(500, relay.exc))

\* the command control_tv has the session run for action: that of
\* turn_screen_on, turn_screen_off or get_power_state, or none
tv_command(action) ==
    CASE action = "screen_on" -> "turn_on"
      [] action = "screen_off" -> "turn_off"
      [] action = "status" -> "get_power"
      [] OTHER -> "none"

\* a run_command that tests the power state for truth
run_command_result_truthy(action, res) ==
    CASE action = "screen_on" ->
            IF Truthy(res) THEN Update(PyBool(TRUE))
            ELSE Return(Failure(500, "Failed to turn screen on"))
      [] action = "screen_off" ->
            IF Truthy(res) THEN Update(PyBool(FALSE))
            ELSE Return(Failure(500, "Failed to turn screen off"))
      [] action = "status" ->
            IF Truthy(res) THEN Update(res)
            ELSE Return(Failure(500, "Failed to get power state"))
      [] OTHER -> Return(Failure(500, "Invalid action"))

\* a run_command that records whatever get_power_state returned
run_command_result_unchecked(action, res) ==
    CASE action = "screen_on" ->
            IF Truthy(res) THEN Update(PyBool(TRUE))
            ELSE Return(Failure(500, "Failed to turn screen on"))
      [] action = "screen_off" ->
            IF Truthy(res) THEN Update(PyBool(FALSE))
            ELSE Return(Failure(500, "Failed to turn screen off"))
      [] action = "status" -> Update(res)
      [] OTHER -> Return(Failure(500, "Invalid action"))

\* run_command once the session has returned res, and control_tv's
\* `if 'error' in result: return jsonify(result), 500`
run_command_result(action, res) ==
    CASE action = "screen_on" ->
            IF Truthy(res) THEN Update(PyBool(TRUE))
            ELSE Return(Failure(500, "Failed to turn screen on"))
      [] action = "screen_off" ->
            IF Truthy(res) THEN Update(PyBool(FALSE))
            ELSE Return(Failure(500, "Failed to turn screen off"))
      [] action = "status" ->
            IF res # PyNone THEN Update(res)
            ELSE Return(Failure(500, "Failed to get power state"))
      [] OTHER -> Return(Failure(500, "Invalid action"))

DispStart ==
    /\ dkind = "none"
    /\ daction = "none"
    /\ dout = NoOutcome
    /\ dispatches = 0
    /\ before =
          [tplink |-> PyBool(FALSE), tv |-> PyBool(FALSE), last_update |-> 0]
    /\ updates = << >>
    /\ connects = 0
    /\ commands = 0
    /\ calls = 0

DispIdle == dpc = "off" /\ DispStart

DispInit == dpc = "idle" /\ DispStart

\* the cache when requests are served one at a time
CacheServing ==
    /\ CacheStart
    /\ upc = [t \in Threads |-> IF t = Request THEN "idle" ELSE "off"]
    /\ now = 1

\* a request for /api/tplink/<action> or /api/tv/<action> arrives;
\* ip tells whether the address of the device is configured:
\*   ip = config.get(...); if not ip: return jsonify({'error': ...}), 400
DCall(kind, action, ip) ==
    /\ dpc \in {"idle", "done"}
    /\ dispatches < MaxDispatches
    /\ dispatches' = dispatches + 1
    /\ dkind' = kind
    /\ daction' = action
    /\ before' = device_states
    /\ updates' = << >>
    /\ connects' = 0
    /\ commands' = 0
    /\ calls' = 0
    /\ IF ip
       THEN /\ dpc' = "route"
            /\ dout' = NoOutcome
       ELSE /\ dpc' = "done"
            /\ dout' = Failure(400, IF kind = "tplink"
                                    THEN "TP-Link IP not configured"
                                    ELSE "TV IP not configured")
    \* the request has made no call yet: its clients and its locals are new
    /\ spc' = "idle"
    /\ command' = PyNone
    /\ sock' = "none"
    /\ devSends' = << >>
    /\ sent' = << >>
    /\ data' = << >>
    /\ sexc' = "none"
    /\ sret' = PyNone
    /\ sout' = "none"
    /\ tvpc' = "idle"
    /\ tvcmd' = "none"
    /\ storeAtStart' = store
    /\ client' = "None"
    /\ client_key' = PyNone
    /\ handshake' = PyNone
    /\ conn' = "none"
    /\ connected' = FALSE
    /\ saveCalls' = << >>
    /\ requested' = "none"
    /\ powerReply' = PyNone
    /\ hout' = "none"
    /\ result' = PyNone
    /\ tvexc' = "none"
    /\ tvret' = PyNone
    /\ tvout' = "none"
    /\ discLast' = "none"
    /\ upc' = [upc EXCEPT ![Request] = "idle"]
    /\ uarg' = [uarg EXCEPT ![Request] =
                    [device |-> "tplink", state |-> PyBool(FALSE)]]
    /\ uts' = [uts EXCEPT ![Request] = 0]
    /\ UNCHANGED <<cipherVars, hasAenter, sessions, store, device_states,
                   state_lock, now, readVars, timeVars,
                   concVars>>

\* the handler goes on after the client's call: update_device_state if the
\* code calls it, then the response
DFinish(r) ==
    /\ dout' = r.out
    /\ IF r.update # << >>
       THEN /\ UpdCall(Request, dkind, r.update[1])
            /\ updates' =
                  Append(updates, [device |-> dkind, state |-> r.update[1]])
            /\ dpc' = "update"
       ELSE /\ dpc' = "done"
            /\ UNCHANGED <<updates, cipherVars, switchVars, tvVars, cacheVars>>
    /\ UNCHANGED <<dkind, daction, dispatches, before, connects, commands,
                   calls, readVars, timeVars,
                   concVars>>

\* result = TPLinkDevice.turn_on(ip) / turn_off(ip) / get_info(ip)
DTplinkCall ==
    /\ dpc = "route"
    /\ dkind = "tplink"
    /\ tplink_command(daction) # PyNone
    /\ SwCall(tplink_command(daction))
    /\ calls' = calls + 1
    /\ dpc' = "client"
    /\ UNCHANGED <<dkind, daction, dout, dispatches, before, updates,
                   connects, commands, readVars, timeVars,
                   concVars>>

\* no branch of control_tplink matches the action
DTplinkNoCall ==
    /\ dpc = "route"
    /\ dkind = "tplink"
    /\ tplink_command(daction) = PyNone
    /\ DFinish(control_tplink_try(daction, PyNone))

\* the sizes of the one recv that requests are served with: nothing or all
\* of the reply, its first byte, or its header and one byte more
ServedRecvSizes(reply) == RecvSizes(reply) \cap {0, 1, 5, Len(reply)}

\* the client of the request runs; it made c connection attempts and sent
\* m commands in this step
Counted(kind, c, m) ==
    /\ dpc = "client"
    /\ dkind = kind
    /\ connects' = connects + c
    /\ commands' = commands + m
    /\ UNCHANGED <<dpc, dkind, daction, dout, dispatches, before, updates,
                   calls, readVars, timeVars,
                   concVars>>

\* send_command runs; connect and send are counted
DSwitch ==
    \/ SwSocket /\ Counted("tplink", 0, 0)
    \/ SwSocketFail /\ Counted("tplink", 0, 0)
    \/ \E reply \in DeviceReplies :
            SwConnect(reply) /\ Counted("tplink", 1, 0)
    \/ \E e \in {"ConnectionRefusedError", "timeout"} :
            SwConnectFail(e) /\ Counted("tplink", 1, 0)
    \/ SwSend /\ Counted("tplink", 0, 1)
    \/ \E e \in {"BrokenPipeError", "timeout"} :
            SwSendFail(e) /\ Counted("tplink", 0, 1)
    \/ \E k \in ServedRecvSizes(devSends) :
            SwRecv(k) /\ Counted("tplink", 0, 0)
    \/ \E e \in {"ConnectionResetError", "timeout"} :
            SwRecvFail(e) /\ Counted("tplink", 0, 0)
    \/ SwClose /\ Counted("tplink", 0, 0)
    \/ SwParse /\ Counted("tplink", 0, 0)
    \/ SwExcept /\ Counted("tplink", 0, 0)

\* send_command has returned (or raised) into control_tplink
DTplinkResult ==
    /\ dpc = "client"
    /\ dkind = "tplink"
    /\ spc = "done"
    /\ DFinish(IF sout = "raised"
               THEN Return(Failure(500, sexc))
               ELSE control_tplink_try(daction, sret))

\* tv = WebOSTV(ip); result = await tv.turn_screen_on() / turn_screen_off()
\* / get_power_state()
DTvCall ==
    /\ dpc = "route"
    /\ dkind = "tv"
    /\ tv_command(daction) # "none"
    /\ TvCall(tv_command(daction))
    /\ calls' = calls + 1
    /\ dpc' = "client"
    /\ UNCHANGED <<dkind, daction, dout, dispatches, before, updates,
                   connects, commands, readVars, timeVars,
                   concVars>>

\* return {'error': 'Invalid action'}
DTvNoCall ==
    /\ dpc = "route"
    /\ dkind = "tv"
    /\ tv_command(daction) = "none"
    /\ DFinish(run_command_result(daction, PyNone))

\* _execute_command runs; the connection and the command are counted
DTv ==
    \/ TvLoad /\ Counted("tv", 0, 0)
    \/ TvLoadFail /\ Counted("tv", 0, 0)
    \/ \E k \in HandshakeKeys : TvConnect(k) /\ Counted("tv", 1, 0)
    \/ \E e \in ConnectErrors : TvConnectFail(e) /\ Counted("tv", 1, 0)
    \/ \E k \in HandshakeKeys : TvAenter(k) /\ Counted("tv", 1, 0)
    \/ \E e \in ConnectErrors : TvAenterFail(e) /\ Counted("tv", 1, 0)
    \/ TvNoSave /\ Counted("tv", 0, 0)
    \/ TvSave /\ Counted("tv", 0, 0)
    \/ TvSaveFail /\ Counted("tv", 0, 0)
    \/ TvScreenCommand /\ Counted("tv", 0, 1)
    \/ \E e \in CommandErrors :
            TvScreenCommandFail(e) /\ Counted("tv", 0, 1)
    \/ \E reply \in PowerReplies : TvGetPower(reply) /\ Counted("tv", 0, 1)
    \/ TvGetPowerFail /\ Counted("tv", 0, 1)
    \/ TvDisconnect /\ Counted("tv", 0, 0)
    \/ \E e \in DisconnectErrors, c \in {"open", "closed"} :
            TvDisconnectFail(e, c) /\ Counted("tv", 0, 0)
    \/ TvAexit /\ Counted("tv", 0, 0)
    \/ \E e \in DisconnectErrors, c \in {"open", "closed"} :
            TvAexitFail(e, c) /\ Counted("tv", 0, 0)
    \/ TvExcept /\ Counted("tv", 0, 0)
    \/ TvFinally /\ Counted("tv", 0, 0)
    \/ TvFinallyDisconnect /\ Counted("tv", 0, 0)
    \/ \E e \in DisconnectErrors, c \in {"open", "closed"} :
            TvFinallyDisconnectFail(e, c) /\ Counted("tv", 0, 0)

\* _execute_command has returned (or raised) into run_command
DTvResult ==
    /\ dpc = "client"
    /\ dkind = "tv"
    /\ tvpc = "done"
    /\ DFinish(IF tvout = "raised"
               THEN Return(Failure(500, tvexc))
               ELSE run_command_result(daction, tvret))

\* the request is inside update_device_state
Updating ==
    /\ dpc = "update"
    /\ UNCHANGED <<dispVars, readVars, timeVars,
                   concVars>>

\* update_device_state runs, and the clock with it
DUpdate ==
    \/ UpdAcquire(Request) /\ Updating
    \/ UpdState(Request) /\ Updating
    \/ UpdTime(Request) /\ Updating
    \/ UpdRelease(Request) /\ Updating
    \/ Tick /\ Updating

\* update_device_state has returned: the response is sent
DUpdateReturn ==
    /\ dpc = "update"
    /\ upc[Request] = "done"
    /\ dpc' = "done"
    /\ UNCHANGED <<dkind, daction, dout, dispatches, before, updates,
                   connects, commands, calls, cipherVars, switchVars, tvVars,
                   cacheVars, readVars, timeVars,
                   concVars>>

DispatchNext ==
    \/ \E action \in TplinkActions \cup OtherActions, ip \in BOOLEAN :
            DCall("tplink", action, ip)
    \/ \E action \in TvActions \cup OtherActions, ip \in BOOLEAN :
            DCall("tv", action, ip)
    \/ DTplinkCall
    \/ DTplinkNoCall
    \/ DSwitch
    \/ DTplinkResult
    \/ DTvCall
    \/ DTvNoCall
    \/ DTv
    \/ DTvResult
    \/ DUpdate
    \/ DUpdateReturn

(***************************************************************************)
(* Requests served at the same time: the server gives each request a       *)
(* thread of its own.  A thread is one request from the return of its      *)
(* client on: the handler looks at what the client returned and, where the *)
(* code says so, calls update_device_state.  Nothing but state_lock,       *)
(* inside update_device_state, orders the threads.                         *)
(***************************************************************************)
\* what send_command may return to control_tplink: a parsed reply, or None
SendCommandResults ==
    {PyNone} \cup
        { json_loads(J).v : J \in {T \in ReplyTexts : json_loads(T).ok} }

\* what _execute_command may return for cmd: True or None for the screen
\* commands, the screen state or None for get_power
ExecuteCommandResults(cmd) ==
    CASE cmd \in {"turn_on", "turn_off"} -> {PyBool(TRUE), PyNone}
      [] cmd = "get_power" -> {PyBool(TRUE), PyBool(FALSE), PyNone}
      [] OTHER -> {PyNone}

\* what the handler of action has in `result` after the client's call (None
\* when no branch of the handler calls the client)
ClientResults(kind, action) ==
    IF kind = "tplink"
    THEN IF tplink_command(action) = PyNone
         THEN {PyNone}
         ELSE SendCommandResults
    ELSE ExecuteCommandResults(tv_command(action))

\* the handler of the route once its client has returned res
handler_result(kind, action, res) ==
    IF kind = "tplink"
    THEN control_tplink_try(action, res)
    ELSE run_command_result(action, res)

ConcOthers == <<readVars, timeVars, dispVars>>

\* the device of thread t's request has answered and the client returns
\* res; the handler takes it for a success and calls update_device_state
CRespondUpdate(t, kind, action, res) ==
    /\ res \in ClientResults(kind, action)
    /\ handler_result(kind, action, res).update # << >>
    /\ UpdCall(t, kind, handler_result(kind, action, res).update[1])
    /\ responses' =
          Append(responses,
                 [thread |-> t, device |-> kind,
                  state |-> handler_result(kind, action, res).update[1]])
    /\ UNCHANGED ConcOthers

\* the client returns res and the handler answers with an error: no call
\* of update_device_state
CRespondFail(t, kind, action, res) ==
    /\ upc[t] = "idle"
    /\ res \in ClientResults(kind, action)
    /\ handler_result(kind, action, res).update = << >>
    /\ upc' = [upc EXCEPT ![t] = "done"]
    /\ UNCHANGED <<device_states, state_lock, uarg, uts, now, CacheOthers,
                   ConcOthers, concVars>>

\* the actions a request for the device may name
ActionsOf(kind) ==
    (IF kind = "tplink" THEN TplinkActions ELSE TvActions) \cup OtherActions

ConcurrentNext ==
    \/ \E t \in Threads, kind \in Devices :
          \E action \in ActionsOf(kind) :
            \E res \in ClientResults(kind, action) :
                CRespondUpdate(t, kind, action, res)
    \/ \E t \in Threads, kind \in Devices :
          \E action \in ActionsOf(kind) :
            \E res \in ClientResults(kind, action) :
                CRespondFail(t, kind, action, res)
    \/ \E t \in Threads : UpdAcquire(t) /\ UNCHANGED extVars
    \/ \E t \in Threads : UpdState(t) /\ UNCHANGED extVars
    \/ \E t \in Threads : UpdTime(t) /\ UNCHANGED extVars
    \/ \E t \in Threads : UpdRelease(t) /\ UNCHANGED extVars
    \/ Tick /\ UNCHANGED extVars

(***************************************************************************)
(* The specifications: each runs one part of the program, the others idle. *)
(***************************************************************************)
InitCipher ==
    CipherInit /\ SwitchIdle /\ TvIdle /\ CacheIdle /\ ReadIdle /\ TimeIdle
        /\ DispIdle /\ ConcIdle
InitSwitch ==
    CipherIdle /\ SwitchInit /\ TvIdle /\ CacheIdle /\ ReadIdle /\ TimeIdle
        /\ DispIdle /\ ConcIdle
InitTV ==
    CipherIdle /\ SwitchIdle /\ TvInit /\ CacheIdle /\ ReadIdle /\ TimeIdle
        /\ DispIdle /\ ConcIdle
InitCache ==
    CipherIdle /\ SwitchIdle /\ TvIdle /\ CacheInit /\ ReadIdle /\ TimeIdle
        /\ DispIdle /\ ConcIdle
InitCacheRead ==
    CipherIdle /\ SwitchIdle /\ TvIdle /\ CacheInit /\ ReadIdle /\ TimeIdle
        /\ DispIdle /\ ConcIdle
InitSwitchTimed ==
    CipherIdle /\ SwitchInit /\ TvIdle /\ CacheIdle /\ ReadIdle /\ TimeIdle
        /\ DispIdle /\ ConcIdle
InitDispatch ==
    CipherIdle /\ SwitchInit /\ TvInit /\ CacheServing /\ ReadIdle /\ TimeIdle
        /\ DispInit /\ ConcIdle
InitConcurrent ==
    /\ CipherIdle /\ SwitchIdle /\ TvIdle /\ ReadIdle /\ TimeIdle
    /\ DispIdle /\ ConcIdle
    /\ CacheStart
    /\ upc = [t \in Threads |-> IF t <= MaxConcurrent THEN "idle" ELSE "off"]
    /\ now = 1

SpecCipher == InitCipher /\ [][CipherNext]_vars

SpecSwitch == InitSwitch /\ [][SwitchNext]_vars

SpecTV == InitTV /\ [][TvNext]_vars

SpecCache == InitCache /\ [][CacheNext]_vars

\* the cache with a reader
SpecCacheRead == InitCacheRead /\ [][CacheReadNext]_vars

\* send_command against the clock
SpecSwitchTimed == InitSwitchTimed /\ [][TimedNext]_vars

\* requests served one after the other
SpecDispatch == InitDispatch /\ [][DispatchNext]_vars
SpecConcurrent == InitConcurrent /\ [][ConcurrentNext]_vars

(***************************************************************************)
(* Properties.                                                             *)
(***************************************************************************)

\* C1: for every byte sequence P, empty or not, decrypt applied to
\* encrypt(P) without its first 4 bytes returns exactly P, and both calls
\* start from key 171: the first cipher byte is 171 XOR the first plain
\* byte.
C1_RoundTrip ==
    /\ cpc = "decrypted" => decrypted = string
    /\ (cpc = "decrypted" /\ string # << >>) =>
            /\ encrypted[5] = Xor(171, string[1])
            /\ decrypted[1] = Xor(171, encrypted[5])

\* a plaintext of several bytes has been encrypted and decrypted back
C1_Witness ==
    /\ cpc = "decrypted"
    /\ Len(string) >= 2
    /\ decrypted = string
    /\ SkipHeader(encrypted) # string

\* C2: for every plaintext P, encrypt(P) is exactly 4 + len(P) bytes long
\* and its first 4 bytes are len(P) as a big-endian unsigned 32-bit integer.
C2_LengthHeader ==
    cpc \in {"encrypted", "decrypted"} =>
        /\ Len(encrypted) = 4 + Len(string)
        /\ \A i \in 1..4 : encrypted[i] \in 0..255
        /\ encrypted[1] * 16777216 + encrypted[2] * 65536
             + encrypted[3] * 256 + encrypted[4] = Len(string)

\* a plaintext longer than 255 bytes has been encrypted: its length does
\* not fit the last byte of the header
C2_Witness ==
    /\ cpc = "encrypted"
    /\ Len(string) > 255
    /\ encrypted[3] # 0

\* C3: send_command never raises: whatever connect, send, recv and the JSON
\* parse do, it returns the parsed response or None, and None after every
\* failure.
C3_NeverRaises ==
    spc = "done" =>
        /\ sout = "returned"
        /\ sexc # "none" => sret = PyNone
        /\ sexc = "none" =>
              /\ json_loads(decrypt(SkipHeader(data))).ok
              /\ sret = json_loads(decrypt(SkipHeader(data))).v

\* a reply that is not JSON was received, and send_command returned None
C3_Witness ==
    /\ spc = "done"
    /\ sexc = "JSONDecodeError"
    /\ data # << >>
    /\ sout = "returned"
    /\ sret = PyNone

\* C4: when the switch accepts the connection and sends a complete reply
\* frame(J) for a valid JSON text J, and no socket call fails, send_command
\* returns the parsed value of J, however the stream delivers the reply.
C4_CompleteReplyParsed ==
    \A J \in ReplyTexts :
        (spc = "done" /\ devSends = encrypt(J) /\ sexc \notin SocketErrors) =>
            /\ sout = "returned"
            /\ sret = json_loads(J).v

\* C5: on every exit path of _execute_command the connection is closed
\* before the call ends: a connection that was opened is open at the end
\* only if the disconnect the code issued last itself failed, and is never
\* left without a disconnect.
C5_ClosedOnExit ==
    tvpc = "done" =>
        /\ conn = "open" => discLast = "raised"
        /\ conn # "none" => discLast # "none"

\* the command raised after a manual connect, and the cleanup closed the
\* connection
C5_Witness ==
    /\ tvpc = "done"
    /\ ~hasAenter
    /\ hout = "raised"
    /\ requested = "raised"
    /\ conn = "closed"

\* C6: every exception raised while connecting or while dispatching the
\* command is contained in _execute_command: the call returns None and no
\* exception leaves it, also when the cleanup disconnect that follows a
\* failed command fails.
C6_ExceptionsContained ==
    tvpc = "done" =>
        /\ tvout = "returned"
        /\ tvexc # "none" => tvret = PyNone

\* C7: in one session whose connection succeeds, once the credentials have
\* been compared: if the credential of the handshake differs from the one
\* loaded (absent included) save_client_key has been invoked exactly once,
\* with the handshake credential; if they are equal, not at all.
C7_SaveExactlyOnce ==
    (conn # "none" /\ tvpc # "handle") =>
        IF handshake # client_key
        THEN saveCalls = <<handshake>>
        ELSE saveCalls = << >>

\* a first pairing: nothing was loaded, the television issued a credential
\* and the session ended with one save of it
C7_Witness ==
    /\ tvpc = "done"
    /\ client_key = PyNone
    /\ handshake \in Credentials
    /\ saveCalls = <<handshake>>

\* C8: if the connection fails, the stored credential is the same after the
\* call as before it, and save_client_key was not invoked.
C8_FailedConnectKeepsStore ==
    (tvpc \in {"except", "finally", "done"} /\ conn = "none") =>
        /\ store = storeAtStart
        /\ saveCalls = << >>

\* a connect failed in a session that had loaded a stored credential
C8_Witness ==
    /\ tvpc = "done"
    /\ conn = "none"
    /\ tvexc \in ConnectErrors
    /\ client_key \in Credentials
    /\ store = client_key

\* C9: for get_power the result depends only on the `state` field of the
\* reply: "Active" and "Screen On" give True, "Power Off" and "Screen Off"
\* give False, anything else (another value, no field, a reply that is no
\* dict, a failed request) gives None, and nothing is raised.
C9_PowerStateMapping ==
    (tvcmd = "get_power" /\ requested # "none") =>
        LET state ==
                IF /\ requested = "ok"
                   /\ powerReply.t = "dict"
                   /\ K_state \in DOMAIN powerReply.d
                THEN powerReply.d[K_state]
                ELSE PyNone
        IN  /\ hout = "returned"
            /\ (state = PyStr(S_Active) \/ state = PyStr(S_ScreenOn))
                  => result = PyBool(TRUE)
            /\ (state = PyStr(S_PowerOff) \/ state = PyStr(S_ScreenOff))
                  => result = PyBool(FALSE)
            /\ state \notin {PyStr(S_Active), PyStr(S_ScreenOn),
                             PyStr(S_PowerOff), PyStr(S_ScreenOff)}
                  => result = PyNone

\* the television reported "Screen Off" and get_power gave False
C9_Witness ==
    /\ tvcmd = "get_power"
    /\ requested = "ok"
    /\ powerReply = PyDict(K_state :> PyStr(S_ScreenOff))
    /\ result = PyBool(FALSE)

\* C10: when all the threads that called update_device_state have finished,
\* the cache holds the state and the timestamp of one and the same update,
\* which is one with the latest timestamp: the state of its device is the
\* state it wrote and last_update is its timestamp.
C10_LatestUpdateWins ==
    (\A t \in Threads : upc[t] = "done") =>
        \E t \in Threads :
            /\ \A u \in Threads : uts[u] <= uts[t]
            /\ device_states.last_update = uts[t]
            /\ device_states[uarg[t].device] = uarg[t].state

\* all threads have finished, at distinct times, two of them having written
\* different states of the same device
C10_Witness ==
    /\ \A t \in Threads : upc[t] = "done"
    /\ \A t, u \in Threads : t # u => uts[t] # uts[u]
    /\ \E t, u \in Threads :
            /\ uarg[t].device = uarg[u].device
            /\ uarg[t].state # uarg[u].state

\* C11: every read of the cache by get_status that runs while
\* update_device_state runs sees the cache as a whole number of completed
\* updates left it: never a state an update has written while the timestamp
\* of that update is still to be written.
C11_WholeSnapshot ==
    \A i \in 1..Len(snapshots) : snapshots[i].seen = snapshots[i].whole

\* C12: a request whose action is not one of the actions of its device
\* makes no call of the client, no connection attempt and sends no command,
\* calls update_device_state not at all and leaves the cache as it was; it
\* ends in an error response.
C12_InvalidActionNoIO ==
    ( \/ dkind = "tplink" /\ daction \notin TplinkActions
      \/ dkind = "tv" /\ daction \notin TvActions ) =>
        /\ calls = 0
        /\ connects = 0
        /\ commands = 0
        /\ spc = "idle"
        /\ sock = "none"
        /\ updates = << >>
        /\ device_states = before
        /\ dpc = "done" => dout.status = "error"

\* an unknown action was asked of the television after an earlier request
\* had turned its screen on: no call, and the cache as before
C12_Witness ==
    /\ dpc = "done"
    /\ dkind = "tv"
    /\ daction \in OtherActions
    /\ dout = Failure(500, "Invalid action")
    /\ before.tv = PyBool(TRUE)
    /\ device_states = before
    /\ calls = 0

\* C13: for both kinds of device, the response to an unknown action differs
\* from every response a valid action gets when the client returns the
\* failure value.
C13_InvalidActionDistinct ==
    dpc = "done" =>
        /\ (dkind = "tplink" /\ daction \notin TplinkActions) =>
              \A a \in TplinkActions : dout # control_tplink_try(a, PyNone).out
        /\ (dkind = "tv" /\ daction \notin TvActions) =>
              \A a \in TvActions : dout # run_command_result(a, PyNone).out

\* C14: whenever a request ends in an error response, update_device_state
\* was not called and the cache (both states and last_update) is the same
\* as when the request arrived.
C14_FailureKeepsCache ==
    (dpc = "done" /\ dout.status = "error") =>
        /\ updates = << >>
        /\ device_states = before

\* the switch, on after an earlier request, answered a status request
\* without relay_state: KeyError was caught and the cache kept
C14_Witness ==
    /\ dpc = "done"
    /\ dkind = "tplink"
    /\ daction = "status"
    /\ sret = PyDict(K_system :> PyDict(K_get_sysinfo :> PyDict(<< >>)))
    /\ dout = Failure(500, "KeyError")
    /\ before.tplink = PyBool(TRUE)
    /\ device_states = before

\* C15: whenever a request ends in a success response with state s,
\* update_device_state was called once, for the device of the request and
\* with s, and has returned: s is (relay_state == 1) for the status of the
\* switch, the commanded state for on and off acknowledged by a reply that
\* contains `system`, True and False for screen_on and screen_off, and the
\* power state the session returned for the status of the television; a
\* session that returns False gives success with state False.
C15_SuccessAfterUpdate ==
    /\ (dpc = "done" /\ dout.status = "success") =>
          /\ dout.code = 200
          /\ updates = <<[device |-> dkind, state |-> dout.state]>>
          /\ upc[Request] = "done"
          /\ device_states[dkind] = dout.state
          /\ (dkind = "tplink" /\ daction = "on") =>
                /\ dout.state = PyBool(TRUE)
                /\ Contains(K_system, sret) = "True"
          /\ (dkind = "tplink" /\ daction = "off") =>
                /\ dout.state = PyBool(FALSE)
                /\ Contains(K_system, sret) = "True"
          /\ (dkind = "tplink" /\ daction = "status") =>
                LET relay_state ==
                        sret.d[K_system].d[K_get_sysinfo].d[K_relay_state]
                IN  dout.state =
                        PyBool(relay_state \in {PyInt(1), PyBool(TRUE)})
          /\ (dkind = "tv" /\ daction = "screen_on") =>
                dout.state = PyBool(TRUE)
          /\ (dkind = "tv" /\ daction = "screen_off") =>
                dout.state = PyBool(FALSE)
          /\ (dkind = "tv" /\ daction = "status") =>
                /\ dout.state = tvret
                /\ requested = "ok"
                /\ tvret = get_screen_state(powerReply)
    /\ ( /\ dpc = "done"
         /\ dkind = "tv"
         /\ daction = "status"
         /\ tvout = "returned"
         /\ tvret = PyBool(FALSE) ) => dout = Success(PyBool(FALSE))

\* the television, its screen on after an earlier request, reported
\* "Screen Off": success with state False, and the cache says off
C15_Witness ==
    /\ dpc = "done"
    /\ dkind = "tv"
    /\ daction = "status"
    /\ powerReply = PyDict(K_state :> PyStr(S_ScreenOff))
    /\ dout = Success(PyBool(FALSE))
    /\ before.tv = PyBool(TRUE)
    /\ device_states.tv = PyBool(FALSE)

\* C16: one request calls the client of its device at most once, and the
\* call makes at most one connection attempt and sends at most one
\* command, the command only after the connection: nothing is tried again,
\* and the request ends with one response.
C16_NoRetry ==
    /\ calls <= 1
    /\ connects <= calls
    /\ commands <= connects
    /\ dpc = "done" => dout # NoOutcome

\* the switch accepted the connection and the command and never answered:
\* one connection, one command, one error response
C16_Witness ==
    /\ dpc = "done"
    /\ dkind = "tplink"
    /\ sexc = "timeout"
    /\ sent # << >>
    /\ connects = 1
    /\ commands = 1
    /\ dout = Failure(500, "Command failed")

\* C17 (as the code has it): send_command does not wait for ever: it takes
\* at most eight steps, a call that waits for the switch (connect, send or
\* recv) can always end by its timeout, and before and after them the code
\* has a step to take; connect, send and recv are each bounded by the
\* timeout on their own, so the time spent over the three is at most three
\* times the timeout, and a call that times out makes send_command return
\* None, no sooner than one timeout after it began.
C17_TerminatesWithinThreeTimeouts ==
    /\ steps <= 8
    /\ spc \in {"connect", "send", "recv"} => ENABLED TimedOut
    /\ spc \in {"idle", "socket", "close", "except"} => ENABLED Untimed
    /\ spc = "done" =>
            /\ elapsed <= 3 * Timeout
            /\ sexc = "timeout" =>
                  /\ sout = "returned"
                  /\ sret = PyNone
                  /\ elapsed >= Timeout

\* connect and send each took the whole timeout and recv timed out
C17_Witness ==
    /\ spc = "done"
    /\ sexc = "timeout"
    /\ sent # << >>
    /\ elapsed = 3 * Timeout
    /\ sret = PyNone

\* C17 (as stated): when send_command has returned, the time spent over
\* connect, send and recv together does not exceed the timeout.
C17_WithinTimeout == spc = "done" => elapsed <= Timeout

\* C18 (as the code has it): update_device_state(d, s) writes s to the
\* state of d and then the clock to the one last_update of the cache; the
\* state of the other device is never changed by it, and nothing else
\* changes the cache.
C18_UpdateFrame ==
    [][ /\ \A t \in Threads :
              (upc[t] \in {"state", "time"} /\ upc'[t] # upc[t]) =>
                  /\ \A o \in Devices \ {uarg[t].device} :
                        device_states'[o] = device_states[o]
                  /\ upc[t] = "state" =>
                        /\ device_states'[uarg[t].device] = uarg[t].state
                        /\ device_states'.last_update =
                              device_states.last_update
                  /\ upc[t] = "time" =>
                        /\ device_states'[uarg[t].device] =
                              device_states[uarg[t].device]
                        /\ device_states'.last_update = now
        /\ device_states' # device_states =>
              \E t \in Threads :
                  upc[t] \in {"state", "time"} /\ upc'[t] # upc[t] ]_vars

\* the switch was set on, and later the television off: the state of the
\* switch stayed, under the timestamp of the later update
C18_Witness ==
    \E t, u \in Threads :
        /\ upc[t] = "done"
        /\ upc[u] = "done"
        /\ uarg[t] = [device |-> "tplink", state |-> PyBool(TRUE)]
        /\ uarg[u] = [device |-> "tv", state |-> PyBool(FALSE)]
        /\ uts[t] < uts[u]
        /\ device_states =
              [tplink |-> PyBool(TRUE), tv |-> PyBool(FALSE),
               last_update |-> uts[u]]

\* C18 (as stated): a step of update_device_state(d, s) leaves what a
\* reader obtains for the other device, its state and its last-update
\* timestamp (the last_update of the cache), unchanged.
C18_OtherRecordUnchanged ==
    [][ \A t \in Threads :
            (upc[t] \in {"state", "time"} /\ upc'[t] # upc[t]) =>
                \A o \in Devices \ {uarg[t].device} :
                    /\ device_states'[o] = device_states[o]
                    /\ device_states'.last_update =
                          device_states.last_update ]_vars

\* C19: over any sequence of sessions, once the store holds a credential it
\* holds a non-empty one ever after: no step of a session deletes or blanks
\* it.
C19_CredentialKept ==
    [][ Truthy(store) => Truthy(store') ]_vars

\* a later session re-paired: the stored credential was overwritten by
\* another one
C19_Witness ==
    /\ tvpc = "done"
    /\ sessions >= 2
    /\ storeAtStart \in Credentials
    /\ store \in Credentials
    /\ store # storeAtStart
    /\ saveCalls = <<store>>

\* C20: in encrypt and in decrypt the key is 171 before the first byte and,
\* after byte i, the cipher byte at position i (emitted by encrypt, consumed
\* by decrypt): cipher byte i is plain byte i XOR cipher byte i-1, with 171
\* before the first.
C20_RunningKey ==
    /\ cpc \in {"encrypted", "decrypted"} =>
          /\ encrypt_key(string, 0) = 171
          /\ \A i \in 1..Len(string) :
                /\ encrypt_key(string, i) = encrypted[4 + i]
                /\ encrypted[4 + i] =
                      Xor(string[i], IF i = 1 THEN 171 ELSE encrypted[3 + i])
    /\ cpc = "decrypted" =>
          /\ decrypt_key(SkipHeader(encrypted), 0) = 171
          /\ \A i \in 1..Len(decrypted) :
                /\ decrypt_key(SkipHeader(encrypted), i) = encrypted[4 + i]
                /\ decrypted[i] =
                      Xor(encrypted[4 + i],
                          IF i = 1 THEN 171 ELSE encrypted[3 + i])

\* a text of several bytes went through both loops, and the key they ended
\* with is its last cipher byte, not 171
C20_Witness ==
    /\ cpc = "decrypted"
    /\ Len(string) >= 3
    /\ encrypt_key(string, Len(string)) = encrypted[Len(encrypted)]
    /\ decrypt_key(SkipHeader(encrypted), Len(string)) =
          encrypted[Len(encrypted)]
    /\ encrypted[Len(encrypted)] # 171

\* C22: in every reachable state, after any sequence of requests for
\* either device, device_states['tplink'] and device_states['tv'] are
\* booleans, and so is every state update_device_state is called with: an
\* absent result (None) of a client is never written into the cache.
C22_CacheHoldsBooleans ==
    /\ \A d \in Devices : device_states[d] \in {PyBool(TRUE), PyBool(FALSE)}
    /\ \A i \in DOMAIN updates :
            updates[i].state \in {PyBool(TRUE), PyBool(FALSE)}
    /\ \A t \in Threads :
            upc[t] # "off" => uarg[t].state \in {PyBool(TRUE), PyBool(FALSE)}

\* after a request that switched the screen on, a status request reached
\* the television, which reported a power state the code does not know:
\* get_power_state returned None, the request failed and the cache kept
\* the boolean it had
C22_Witness ==
    /\ dpc = "done"
    /\ dispatches = 2
    /\ dkind = "tv"
    /\ daction = "status"
    /\ requested = "ok"
    /\ tvout = "returned"
    /\ tvret = PyNone
    /\ dout = Failure(500, "Failed to get power state")
    /\ before.tv = PyBool(TRUE)
    /\ device_states = before

\* C23: every socket that send_command opens is closed before send_command
\* returns: on the success path and on every failure path (connect error,
\* send error, recv timeout) alike, no socket is left open at the return.
C23_SocketClosedOnReturn ==
    spc = "done" => sock # "open"

\* C21: for every interleaving of requests served at the same time, once
\* all of them have completed the cached state of a device is the state of
\* the most recent successful observation of that device: that of the
\* request whose device response was received last.
C21_LastResponseWins ==
    (\A t \in 1..MaxConcurrent : upc[t] = "done") =>
        \A i \in DOMAIN responses :
            (\A j \in DOMAIN responses :
                    j > i => responses[j].device # responses[i].device) =>
                device_states[responses[i].device] = responses[i].state

\* C24: a failure of the pairing store aborts the session before the
\* command is sent.  If load_client_key raised, no connection to the
\* television was attempted; if save_client_key raised after a successful
\* connect, the command was never sent; in both cases _execute_command
\* returns None and the request leaves the cache unchanged.
C24_StoreFailureAborts ==
    LET loadRaised == client = "None" /\ tvexc = "ConsulException"
        saveRaised == saveCalls # << >> /\ store # saveCalls[Len(saveCalls)]
    IN  (dkind = "tv" /\ tvpc = "done") =>
            /\ loadRaised => conn = "none" /\ connects = 0
            /\ (loadRaised \/ saveRaised) =>
                  /\ requested = "none"
                  /\ commands = 0
                  /\ tvout = "returned"
                  /\ tvret = PyNone
                  /\ updates = << >>
                  /\ device_states = before

====
